---- MODULE Spec2Model ----
(***************************************************************************)
(* Flux: request-correlated token streaming.                               *)
(*                                                                         *)
(*   gateway.py  websocket_generate : one session per client connection;   *)
(*               subscribes to the request's channel, pushes the job,      *)
(*               relays bus messages to the client, tears down.            *)
(*   worker.py   main / process_job / stream_inference / signal_handler :  *)
(*               pops jobs, runs the subprocess, publishes                 *)
(*               start / token / complete / error on the job's channel.    *)
(*                                                                         *)
(* The Redis list (queue) and Redis Pub/Sub (per-subscriber inbox) are the *)
(* only shared state.  A request id is the index of the session that drew  *)
(* it (uuid4 values are pairwise distinct).                                *)
(***************************************************************************)
EXTENDS Integers, Sequences, FiniteSets, TLC

\* ---------------------------------------------------------------- bounds
NumSessions == 2
NumWorkers == 2
\* characters the subprocesses of one run write to their stdout
MaxOut == 2
\* failures (publish, Popen, read, metrics parse) injected in one run
MaxFaults == 1
\* requests on the submission-only interface
NumRest == 1
\* failed reconnects that are told apart
MaxRetries == 2
\* ticks of the clock in one run
MaxClock == 2

\* gateway.py:38  DEFAULT_MAX_TOKENS
DEFAULT_MAX_TOKENS == 2048

Sessions == 1..NumSessions
Workers == 1..NumWorkers
\* request ids; 0 stands for "no request_id field"
NoReq == 0
\* request ids drawn by api_generate (gateway.py:906)
RestIds == (NumSessions + 1)..(NumSessions + NumRest)
Req == Sessions \cup RestIds

\* The characters read(1) can return, one of each class the driver tells
\* apart: "a" printable; " " whitespace the driver lets through (with "\n",
\* which is also what a "\r" of the subprocess arrives as, and "\t"); "BEL"
\* for "\x07", not printable and kept by strip(); "FF" for "\x0c", whitespace
\* that is not printable and not let through (with "\x0b", "\x1c".."\x1f",
\* "\x85", "\xa0").
Chars == {"a", " ", "BEL", "FF"}

\* str.isprintable() (worker.py:250)
IsPrintable(c) == c \in {"a", " "}
\* char in ['\n', '\t', ' '] (worker.py:250)
IsLetThroughWhitespace(c) == c = " "

VARIABLES
    queue,          \* Redis list QUEUE_NAME: sequence of job payloads
    subscribed,     \* channels (request ids) with a live subscription
    everSubscribed, \* history: channels that were subscribed at some time
    inbox,          \* per channel: messages delivered to its subscriber, unread
    published,      \* history: per channel, every message PUBLISH accepted
    spc,            \* per session: position in websocket_generate
    connected,      \* per session: the client transport is still open
    sent,           \* per session: messages the client received
    outcome,        \* per session: REQUEST_COUNT label incremented, "none",
                    \* or "success+error" when both were
    wpc,            \* per worker: position in main/process_job/stream_inference
    running,        \* per worker: the global `running` flag
    job,            \* per worker: the job being processed
    current_process,\* per worker: the handle: "none", "running" or "exited"
    token_count,    \* per worker: stream_inference's token_count
    full_output,    \* per worker: stream_inference's full_output
    popCount,       \* history: per request id, how many BLPOPs returned it
    interrupted,    \* history: request ids whose subprocess was running when
                    \* the shutdown signal arrived
    emitted,        \* characters read from subprocesses so far
    faults,         \* failures injected so far
    prompt,         \* per session: websocket_generate's prompt ("unset" before)
    api,            \* per REST request id: what api_generate answered
    returncode,     \* per worker: current_process.returncode after wait()
    orphans,        \* per worker: a subprocess it spawned may still run
                    \* although the worker dropped its handle
    preconditions,  \* per worker: did the startup prerequisites really hold
    pushed,         \* history: request ids in the order RPUSH accepted them
    popped,         \* history: request ids in the order BLPOP returned them
    stderr_output,  \* per worker: what the subprocess wrote to stderr
    parsed,         \* per worker: parse_llama_metrics "returned" or "raised"
    backend,        \* Redis as seen by the clients: "up" or "down"
    retries,        \* per worker: connect_redis calls of the loop that failed
    max_tokens,     \* per session: the max_tokens read from the request
    message,        \* per session: the bus message taken from listen() and
                    \* not yet written to the client, NoMessage otherwise
    stderr_pipe,    \* per worker: the pipe behind the subprocess's stderr,
                    \* "room" or "full"
    clock,          \* time.time(), in ticks
    job_start_time, \* per worker: stream_inference's job_start_time
    first_token_time, \* per worker: first_token_time, NoTime for None
    token_times,    \* history: per worker, the times at which the token
                    \* messages of its job were published
    driver_metrics  \* per worker: ttft, total_time, generation_time and
                    \* tokens_per_second as computed for the complete message

vars == <<queue, subscribed, everSubscribed, inbox, published, spc, connected,
          sent, outcome, wpc, running, job, current_process, token_count, full_output,
          popCount, interrupted, emitted, faults, prompt, api, returncode,
          orphans, preconditions, pushed, popped, stderr_output,
          parsed, backend, retries, max_tokens, message, stderr_pipe, clock,
          job_start_time,
          first_token_time,
          token_times, driver_metrics>>

gatewayVars == <<spc, connected, sent, outcome, prompt, max_tokens, message,
                 api>>
workerAux == <<returncode, orphans, preconditions, stderr_output,
               parsed, retries, stderr_pipe>>
timingVars == <<job_start_time, first_token_time, token_times,
                driver_metrics>>
workerVars == <<wpc, running, job, current_process, token_count, full_output,
                workerAux, timingVars>>

\* ------------------------------------------------------------- messages
\* A message has a timestamp field ("time") or none ("absent"); `metrics` is
\* the llama_* part of a complete message's metrics, <<>> in the others.
Msg(type, request_id, token_index, content, count, timestamp, metrics) ==
    [type |-> type, request_id |-> request_id, token_index |-> token_index,
     content |-> content, token_count |-> count, timestamp |-> timestamp,
     metrics |-> metrics]

\* worker.py:216-220
StartMessage(request_id) == Msg("start", request_id, 0, "", 0, "time", <<>>)

\* the index taken before the increment instead of after it
TokenMessageIndexBeforeIncrement(request_id, count, char) ==
    Msg("token", request_id, count - 1, char, 0, "time", <<>>)

\* worker.py:252-258: token_index is token_count after the increment
TokenMessage(request_id, count, char) ==
    Msg("token", request_id, count, char, 0, "time", <<>>)

\* metrics that start out unset instead of zero
LlamaMetricsUnset ==
    [prompt_tokens |-> -1, generated_tokens |-> -1, prompt_eval_time_ms |-> -1,
     generation_time_ms |-> -1, prompt_tps |-> -1, generation_tps |-> -1,
     total_time_ms |-> -1]

\* worker.py:52-61: the dataclass LlamaMetrics with its defaults
LlamaMetrics ==
    [prompt_tokens |-> 0, generated_tokens |-> 0, prompt_eval_time_ms |-> 0,
     generation_time_ms |-> 0, prompt_tps |-> 0, generation_tps |-> 0,
     total_time_ms |-> 0]

\* The lines a subprocess can write to stderr, by what the three regular
\* expressions of parse_llama_metrics make of them:
\*   "load"         load time = 1234.56 ms                       (no match)
\*   "prompt_eval"  prompt eval time = 567 ms / 25 tokens (.. 44 tokens per second)
\*   "eval"         eval time = 2345 ms / 49 runs (.. 20 tokens per second)
\*   "total"        total time = 3456 ms / 74 tokens
\*   "eval_dots"    eval time = 1.2.3 ms / 49 runs (.. 20 tokens per second):
\*                  [\d.]+ matches "1.2.3" and float() raises ValueError
\*   "invalid_utf8" a line with a byte that is no valid text: the pipes are
\*                  opened with text=True (worker.py:228), so reading it
\*                  raises UnicodeDecodeError                    (no match)
StderrLines == {"load", "prompt_eval", "eval", "total", "eval_dots",
                "invalid_utf8"}

\* the diagnostic outputs considered
Stderrs == {{}, {"load"}, {"load", "total"},
            {"load", "prompt_eval", "eval", "total"}, {"load", "eval_dots"},
            {"load", "invalid_utf8"}}

\* worker.py:262: current_process.stderr.read() raises on bytes it cannot
\* decode
DecodeRaises(stderr) == "invalid_utf8" \in stderr

HasMarker(stderr) ==
    stderr \cap {"prompt_eval", "eval", "total", "eval_dots"} # {}

\* worker.py:64-100: parse_llama_metrics raises on a marker whose number
\* float() rejects
ParseRaises(stderr) == "eval_dots" \in stderr

\* worker.py:64-100: parse_llama_metrics; each marker found overwrites its
\* fields of the defaults
parse_llama_metrics(stderr) ==
    [prompt_tokens |-> IF "prompt_eval" \in stderr THEN 25
                       ELSE LlamaMetrics.prompt_tokens,
     prompt_eval_time_ms |-> IF "prompt_eval" \in stderr THEN 567
                             ELSE LlamaMetrics.prompt_eval_time_ms,
     prompt_tps |-> IF "prompt_eval" \in stderr THEN 44
                    ELSE LlamaMetrics.prompt_tps,
     generated_tokens |-> IF "eval" \in stderr THEN 49
                          ELSE LlamaMetrics.generated_tokens,
     generation_time_ms |-> IF "eval" \in stderr THEN 2345
                            ELSE LlamaMetrics.generation_time_ms,
     generation_tps |-> IF "eval" \in stderr THEN 20
                        ELSE LlamaMetrics.generation_tps,
     total_time_ms |-> IF "total" \in stderr THEN 3456
                       ELSE LlamaMetrics.total_time_ms]

\* worker.py:286-292: the llama_* entries of the complete message's metrics
\* (total_time_ms of LlamaMetrics is not among them)
EngineMetrics(m) ==
    <<m.prompt_tokens, m.prompt_eval_time_ms, m.prompt_tps,
      m.generated_tokens, m.generation_time_ms, m.generation_tps>>

\* the end-of-stream read counted as one more token
CompleteMessageCountsEof(request_id, count, metrics) ==
    Msg("complete", request_id, 0, "", count + 1, "absent",
        EngineMetrics(metrics))

\* worker.py:277-295: no timestamp field
CompleteMessage(request_id, count, metrics) ==
    Msg("complete", request_id, 0, "", count, "absent", EngineMetrics(metrics))

\* worker.py:308-312: no timestamp field
ErrorMessage(request_id) == Msg("error", request_id, 0, "", 0, "absent", <<>>)

\* gateway.py:825, 880, 886: an error the gateway itself sends; no request_id
GatewayError == Msg("error", NoReq, 0, "", 0, "absent", <<>>)

\* a bus payload that json.loads rejects (gateway.py:848)
Malformed == Msg("malformed", NoReq, 0, "", 0, "absent", <<>>)

\* bus payloads that json.loads accepts and that are no message of a worker:
\* a JSON value that is not an object, such as 5, and an object without a
\* type field, such as {"x": 1}
NonObject == Msg("nonobject", NoReq, 0, "", 0, "absent", <<>>)
NoType == Msg("notype", NoReq, 0, "", 0, "absent", <<>>)

\* the JSON number 5 where a message has its metrics object
NotAnObject == <<5>>

\* bus payloads of another publisher that are JSON objects with a type the
\* relay looks for: {"type": "token"}, {"type": "complete"},
\* {"type": "error"}, and complete messages whose fields the relay's
\* bookkeeping cannot use, {"type": "complete", "token_count": -1} and
\* {"type": "complete", "metrics": 5}
ForeignToken == Msg("token", NoReq, 0, "foreign", 0, "absent", <<>>)
ForeignComplete == Msg("complete", NoReq, 0, "foreign", 0, "absent", <<>>)
ForeignError == Msg("error", NoReq, 0, "foreign", 0, "absent", <<>>)
NegativeCount == Msg("complete", NoReq, 0, "foreign", -1, "absent", <<>>)
NumberMetrics ==
    Msg("complete", NoReq, 0, "foreign", 0, "absent", NotAnObject)

\* what a publisher other than the workers may put on a channel
ForeignPayloads == {Malformed, NonObject, NoType, ForeignToken,
                    ForeignComplete, ForeignError, NegativeCount,
                    NumberMetrics}

\* no message taken (gateway.py:846)
NoMessage == Msg("none", NoReq, 0, "", 0, "absent", <<>>)

\* gateway.py:848: json.loads(message["data"]) returns
Decodes(payload) == payload # Malformed

\* gateway.py:854-872: data.get exists, i.e. the decoded payload is a dict
HasGet(data) == data # NonObject

\* gateway.py:863-868, after the success counter was incremented:
\* TOKENS_GENERATED.inc raises ValueError on a negative token_count, and
\* data.get("metrics", {}).get raises AttributeError on metrics that are no
\* object
BookkeepingRaises(data) ==
    data.token_count < 0 \/ data.metrics = NotAnObject

IsTerminal(m) == m.type \in {"complete", "error"}

\* ---------------------------------------------------------------- timing
\* first_token_time is None (worker.py:210)
NoTime == -1

\* no complete message has been prepared
NoDriverMetrics ==
    [ttft |-> 0, total_time |-> 0, generation_time |-> 0,
     tokens_per_second |-> <<0, 1>>]

\* char.strip() is empty (worker.py:245): true of whitespace, published or
\* not; strip() keeps "\x07"
StripsToNothing(c) == c \in {" ", "FF"}

\* a generation time measured from the start of the job
DriverMetricsFromJobStart(start, first, end, count) ==
    [ttft |-> IF first # NoTime THEN first - start ELSE 0,
     total_time |-> end - start,
     generation_time |-> end - start,
     tokens_per_second |-> IF end - start > 0
                           THEN <<count, end - start>>
                           ELSE <<0, 1>>]

\* worker.py:264-275: end is time.time() after wait() and the stderr read;
\* tokens_per_second is kept as the fraction <<numerator, denominator>>
DriverMetrics(start, first, end, count) ==
    LET total_time == end - start
        generation_time == IF first # NoTime THEN end - first ELSE total_time
    IN [ttft |-> IF first # NoTime THEN first - start ELSE 0,
        total_time |-> total_time,
        generation_time |-> generation_time,
        tokens_per_second |-> IF generation_time > 0
                              THEN <<count, generation_time>>
                              ELSE <<0, 1>>]

\* ------------------------------------------------------------------ jobs
\* a prompt that is JSON but not text and not empty: the number 5
NotText == "5 (number)"

NoJob == [request_id |-> NoReq, prompt |-> "", max_tokens |-> 0]

\* gateway.py:830-834
MakeJob(request_id, text, limit) ==
    [request_id |-> request_id, prompt |-> text, max_tokens |-> limit]

\* what a client may send as its first text frame (gateway.py:818-822):
\* text that is not JSON, JSON that is not an object, or an object whose
\* prompt and max_tokens are whatever the client chose (max_tokens is
\* DEFAULT_MAX_TOKENS when the field is absent)
ClientData ==
    {[json |-> TRUE, object |-> TRUE, prompt |-> "p",
      max_tokens |-> DEFAULT_MAX_TOKENS],
     [json |-> TRUE, object |-> TRUE, prompt |-> "p", max_tokens |-> 0],
     [json |-> TRUE, object |-> TRUE, prompt |-> NotText,
      max_tokens |-> DEFAULT_MAX_TOKENS],
     [json |-> TRUE, object |-> TRUE, prompt |-> "",
      max_tokens |-> DEFAULT_MAX_TOKENS],
     [json |-> TRUE, object |-> FALSE, prompt |-> "",
      max_tokens |-> DEFAULT_MAX_TOKENS],
     [json |-> FALSE, object |-> FALSE, prompt |-> "",
      max_tokens |-> DEFAULT_MAX_TOKENS]}

\* the frames that leave max_tokens to its default
DefaultLimitFrames == {data \in ClientData :
                          data.max_tokens = DEFAULT_MAX_TOKENS}

\* the frames that are requests with a text prompt and no max_tokens
RequestFrames == {data \in DefaultLimitFrames : data.prompt = "p"}

\* the frames that are requests with a text prompt, whatever max_tokens
TextFrames == {data \in ClientData : data.prompt = "p"}

\* the characters of ordinary text output
TextChars == Chars \ {"FF"}

\* ------------------------------------------------------- queue and bus
\* a push at the end the workers pop from
RpushAtHead(q, j) == <<j>> \o q

\* RPUSH (gateway.py:842, 915)
Rpush(q, j) == Append(q, j)

\* a pop that reads the head and leaves it in the list
BlpopPeek(q) == q

\* BLPOP (worker.py:382): the entry returned and the list it leaves
BlpopHead(q) == Head(q)
BlpopRest(q) == Tail(q)

\* a subscribe call that never reaches the bus
SubscribeNothing(subs, r) == subs

\* SUBSCRIBE (gateway.py:838-839)
SubscribeChannel(subs, r) == subs \cup {r}

\* UNSUBSCRIBE (gateway.py:893)
UnsubscribeChannel(subs, r) == subs \ {r}

\* gateway.py:37, worker.py:38: CHANNEL_PREFIX, the same default in both
CHANNEL_PREFIX == "task_channel"

\* a channel name that leaves out the request identity
channelPrefixOnly(request_id) == <<CHANNEL_PREFIX>>

\* gateway.py:838, 893 and worker.py:205: f"{CHANNEL_PREFIX}:{request_id}"
channel(request_id) == <<CHANNEL_PREFIX, request_id>>

\* PUBLISH (worker.py:216, 252, 295, 308): fire-and-forget; the message goes
\* to every subscription whose channel name is the one published on, that
\* exists at that moment.  `subs` are the request ids of the sessions that
\* hold a subscription, `r` is the request id of the publisher's job.
Deliver(box, subs, r, m) ==
    [s \in DOMAIN box |->
        IF s \in subs /\ channel(s) = channel(r)
        THEN Append(box[s], m) ELSE box[s]]

\* a driver that publishes only while somebody is subscribed
PublishToSubscribersOnly(r, m) ==
    /\ published' = [published EXCEPT ![r] =
                        IF r \in subscribed THEN Append(@, m) ELSE @]
    /\ inbox' = Deliver(inbox, subscribed, r, m)

Publish(r, m) ==
    /\ published' = [published EXCEPT ![r] = Append(@, m)]
    /\ inbox' = Deliver(inbox, subscribed, r, m)

\* a relay that takes the newest message first
NextBusMessageNewest(box) == box[Len(box)]

\* pubsub.listen() yields the messages in arrival order (gateway.py:846-848)
NextBusMessage(box) == Head(box)

\* injected failure of one call: ok = FALSE makes the call raise
Fault(ok) ==
    /\ ok \/ faults < MaxFaults
    /\ faults' = IF ok THEN faults ELSE faults + 1

\* One Redis call.  While the backend is down it raises; while it is up it
\* raises only as an injected failure.
RedisCall(ok) ==
    IF backend = "down" THEN ~ok /\ UNCHANGED faults ELSE Fault(ok)

\* api_generate has not been called for this request id
NoAnswer == [status |-> "unused", prompt |-> ""]

\* ----------------------------------------------------------------- Init
\* The state after construction: the sessions in `live` have been accepted
\* and wait for the client's request (gateway.py:806-814), the others are
\* closed; the workers in `up` are at `entry`: "verify" before the startup
\* checks (worker.py:367), "loop" once connect_redis has returned
\* (worker.py:375-380); the others are not running.
InitWith(live, up, entry, written, injected) ==
    /\ queue = <<>>
    /\ subscribed = {}
    /\ everSubscribed = {}
    /\ inbox = [r \in Req |-> <<>>]
    /\ published = [r \in Req |-> <<>>]
    /\ spc = [s \in Sessions |-> IF s \in live THEN "receive" ELSE "closed"]
    /\ connected = [s \in Sessions |-> TRUE]
    /\ sent = [s \in Sessions |-> <<>>]
    /\ outcome = [s \in Sessions |-> "none"]
    /\ wpc = [w \in Workers |-> IF w \in up THEN entry ELSE "exited"]
    /\ running = [w \in Workers |-> w \in up]
    /\ job = [w \in Workers |-> NoJob]
    /\ current_process = [w \in Workers |-> "none"]
    /\ token_count = [w \in Workers |-> 0]
    /\ full_output = [w \in Workers |-> <<>>]
    /\ popCount = [r \in Req |-> 0]
    /\ interrupted = {}
    /\ emitted = written
    /\ faults = injected
    /\ prompt = [s \in Sessions |-> "unset"]
    /\ api = [r \in RestIds |-> NoAnswer]
    /\ returncode = [w \in Workers |-> "none"]
    /\ orphans = [w \in Workers |-> FALSE]
    /\ preconditions = [w \in Workers |->
                          IF w \in up /\ entry = "verify" THEN "unchecked"
                          ELSE "held"]
    /\ pushed = <<>>
    /\ popped = <<>>
    /\ stderr_output = [w \in Workers |-> {}]
    /\ parsed = [w \in Workers |-> "none"]
    /\ backend = "up"
    /\ retries = [w \in Workers |-> 0]
    /\ max_tokens = [s \in Sessions |-> DEFAULT_MAX_TOKENS]
    /\ message = [s \in Sessions |-> NoMessage]
    /\ stderr_pipe = [w \in Workers |-> "room"]
    /\ clock = 0
    /\ job_start_time = [w \in Workers |-> NoTime]
    /\ first_token_time = [w \in Workers |-> NoTime]
    /\ token_times = [w \in Workers |-> <<>>]
    /\ driver_metrics = [w \in Workers |-> NoDriverMetrics]

\* one client session served by one worker past its startup, with failures,
\* signals and disconnects
Init == InitWith({1}, {1}, "loop", 0, 0)

\* two sessions and the pool of workers past their startup; the subprocesses
\* write nothing and no failure is injected
InitPool == InitWith({1, 2} \cap Sessions, Workers, "loop", MaxOut, MaxFaults)

\* ------------------------------------------------- gateway: one session
\* a session that pushes its job first and subscribes afterwards
BeginOrderPushFirst == <<"rpush", "subscribe">>

\* gateway.py:836-842: the two awaits between the prompt check and the
\* relay loop, in program order
BeginOrder == <<"subscribe", "rpush">>

StepAfter(step) == IF step = BeginOrder[1] THEN BeginOrder[2] ELSE "listen"

\* a prompt check that lets every prompt through
PromptNeverMissing(text) == FALSE

\* gateway.py:824: `if not prompt`
PromptMissing(text) == text = ""

\* what send_json raises on a transport the client has closed: Starlette's
\* WebSocketDisconnect, or the server's RuntimeError in releases that let it
\* through
SendFailures == {"WebSocketDisconnect", "RuntimeError"}

\* gateway.py:876-878, 882-883: an exception raised inside the try block by
\* a send on a closed transport.  WebSocketDisconnect is counted as a
\* disconnect; anything else is counted as an error and the handler then
\* tries to tell the client.
Raised(s, exc) ==
    IF exc = "WebSocketDisconnect"
    THEN /\ outcome' = [outcome EXCEPT ![s] = "disconnect"]
         /\ spc' = [spc EXCEPT ![s] = "finally"]
    ELSE /\ outcome' = [outcome EXCEPT ![s] = "error"]
         /\ spc' = [spc EXCEPT ![s] = "tell"]

\* gateway.py:816-824: receive the request, parse it, read prompt and
\* max_tokens, check the prompt.  A closed transport makes receive_text raise
\* WebSocketDisconnect; text that is not JSON raises JSONDecodeError; JSON
\* that is not an object has no .get (AttributeError, line 882).  `frames`
\* are the first frames the clients of a scenario may send.
ReceiveFrom(s, frames) ==
    /\ spc[s] = "receive"
    /\ \/ /\ ~connected[s]
          /\ outcome' = [outcome EXCEPT ![s] = "disconnect"]
          /\ spc' = [spc EXCEPT ![s] = "finally"]
          /\ UNCHANGED <<prompt, max_tokens>>
       \/ /\ connected[s]
          /\ \E data \in frames :
                IF ~data.json
                THEN /\ spc' = [spc EXCEPT ![s] = "invalid_json"]
                     /\ UNCHANGED <<outcome, prompt, max_tokens>>
                ELSE IF ~data.object
                THEN /\ outcome' = [outcome EXCEPT ![s] = "error"]
                     /\ spc' = [spc EXCEPT ![s] = "tell"]
                     /\ UNCHANGED <<prompt, max_tokens>>
                ELSE /\ prompt' = [prompt EXCEPT ![s] = data.prompt]
                     /\ max_tokens' = [max_tokens EXCEPT ![s] = data.max_tokens]
                     /\ spc' = [spc EXCEPT ![s] =
                                  IF PromptMissing(data.prompt)
                                  THEN "prompt_error" ELSE BeginOrder[1]]
                     /\ UNCHANGED outcome
    /\ UNCHANGED <<sent, subscribed, inbox, message>>
    /\ UNCHANGED <<queue, everSubscribed, published, connected, workerVars,
                   popCount, interrupted, emitted, faults, api, pushed, popped,
                   backend, clock>>

Receive(s) == ReceiveFrom(s, ClientData)

\* gateway.py:825: tell the client that the prompt is missing
SendPromptError(s) ==
    /\ spc[s] = "prompt_error"
    /\ IF connected[s]
       THEN /\ sent' = [sent EXCEPT ![s] = Append(@, GatewayError)]
            /\ spc' = [spc EXCEPT ![s] = "count_error"]
            /\ UNCHANGED outcome
       ELSE /\ \E exc \in SendFailures : Raised(s, exc)
            /\ UNCHANGED sent
    /\ UNCHANGED <<prompt, max_tokens, subscribed, inbox, message>>
    /\ UNCHANGED <<queue, everSubscribed, published, connected, workerVars,
                   popCount, interrupted, emitted, faults, api, pushed, popped,
                   backend, clock>>

\* gateway.py:879-880: the JSONDecodeError handler sends before it counts; a
\* send that raises there leaves websocket_generate through finally
SendDecodeError(s) ==
    /\ spc[s] = "invalid_json"
    /\ IF connected[s]
       THEN /\ sent' = [sent EXCEPT ![s] = Append(@, GatewayError)]
            /\ spc' = [spc EXCEPT ![s] = "count_error"]
       ELSE /\ spc' = [spc EXCEPT ![s] = "finally"]
            /\ UNCHANGED sent
    /\ UNCHANGED <<outcome, prompt, max_tokens, subscribed, inbox, message>>
    /\ UNCHANGED <<queue, everSubscribed, published, connected, workerVars,
                   popCount, interrupted, emitted, faults, api, pushed, popped,
                   backend, clock>>

\* gateway.py:826, 862-871, 873, 881, 884: the outcome counter incremented
\* after the frame has been written.  After the success counter (862) the
\* bookkeeping of 863-868 runs on the complete message just written: when it
\* raises, `except Exception` increments the error counter as well (884),
\* so the session has counted both.  "count_exception" is the increment of
\* that handler, reached also after a forwarded payload had no .get.
Count(s) ==
    /\ spc[s] \in {"count_success", "count_error", "count_exception"}
    /\ outcome' = [outcome EXCEPT ![s] =
                      IF spc[s] = "count_success" THEN "success"
                      ELSE IF spc[s] = "count_exception" /\ @ = "success"
                      THEN "success+error"
                      ELSE "error"]
    /\ spc' = [spc EXCEPT ![s] =
                  IF spc[s] = "count_exception" THEN "tell"
                  ELSE IF spc[s] = "count_success"
                          /\ BookkeepingRaises(message[s])
                  THEN "count_exception"
                  ELSE "finally"]
    /\ message' = [message EXCEPT ![s] = NoMessage]
    /\ UNCHANGED <<sent, prompt, max_tokens, subscribed, inbox>>
    /\ UNCHANGED <<queue, everSubscribed, published, connected, workerVars,
                   popCount, interrupted, emitted, faults, api, pushed, popped,
                   backend, clock>>

\* gateway.py:884-888: after counting, `except Exception` tries to tell the
\* client; a failing send is swallowed
Tell(s) ==
    /\ spc[s] = "tell"
    /\ sent' = [sent EXCEPT ![s] =
                   IF connected[s] THEN Append(@, GatewayError) ELSE @]
    /\ spc' = [spc EXCEPT ![s] = "finally"]
    /\ UNCHANGED <<outcome, prompt, max_tokens, subscribed, inbox, message>>
    /\ UNCHANGED <<queue, everSubscribed, published, connected, workerVars,
                   popCount, interrupted, emitted, faults, api, pushed, popped,
                   backend, clock>>

\* gateway.py:889-893: `await pubsub.unsubscribe(channel)`, a Redis call
\* also for a session that never subscribed.  When it raises, the exception
\* is swallowed (895-896), close is skipped and a subscription stays.
Unsubscribe(s) ==
    /\ spc[s] = "finally"
    /\ \E ok \in BOOLEAN :
          /\ RedisCall(ok)
          /\ IF ok
             THEN /\ subscribed' = UnsubscribeChannel(subscribed, s)
                  /\ inbox' = [inbox EXCEPT ![s] = <<>>]
                  /\ spc' = [spc EXCEPT ![s] = "finally_close"]
             ELSE /\ spc' = [spc EXCEPT ![s] = "closed"]
                  /\ UNCHANGED <<subscribed, inbox>>
    /\ UNCHANGED <<queue, everSubscribed, published, connected, sent, outcome,
                   prompt, max_tokens, message, workerVars, popCount,
                   interrupted, emitted, api, pushed, popped, backend, clock>>

\* gateway.py:894-896: `await pubsub.close()`, after which
\* websocket_generate returns; a failure of close is swallowed
Close(s) ==
    /\ spc[s] = "finally_close"
    /\ spc' = [spc EXCEPT ![s] = "closed"]
    /\ UNCHANGED <<queue, subscribed, everSubscribed, inbox, published,
                   connected, sent, outcome, prompt, max_tokens, message,
                   workerVars, popCount, interrupted, emitted, faults, api,
                   pushed, popped, backend, clock>>

\* gateway.py:118-122: when the server stops, after its sessions have ended,
\* the connection pool is disconnected, which drops what is still subscribed
LifespanShutdown ==
    /\ \A s \in Sessions : spc[s] = "closed"
    /\ subscribed # {}
    /\ subscribed' = {}
    /\ inbox' = [r \in Req |-> <<>>]
    /\ UNCHANGED <<queue, everSubscribed, published, gatewayVars, workerVars,
                   popCount, interrupted, emitted, faults, pushed, popped,
                   backend, clock>>

\* gateway.py:836-839: subscribe BEFORE pushing the job; a call that raises
\* is counted as an error (882-883)
Subscribe(s) ==
    /\ spc[s] = "subscribe"
    /\ \E ok \in BOOLEAN :
          /\ RedisCall(ok)
          /\ IF ok
             THEN /\ subscribed' = SubscribeChannel(subscribed, s)
                  /\ spc' = [spc EXCEPT ![s] = StepAfter("subscribe")]
                  /\ UNCHANGED outcome
             ELSE /\ outcome' = [outcome EXCEPT ![s] = "error"]
                  /\ spc' = [spc EXCEPT ![s] = "tell"]
                  /\ UNCHANGED subscribed
    /\ everSubscribed' = everSubscribed \cup (subscribed' \ subscribed)
    /\ UNCHANGED <<queue, inbox, sent, published, connected, workerVars,
                   popCount, interrupted, emitted, prompt, max_tokens,
                   message, api, pushed, popped, backend, clock>>

\* gateway.py:828-842: the job carries the prompt and the max_tokens the
\* client sent
Push(s) ==
    /\ spc[s] = "rpush"
    /\ \E ok \in BOOLEAN :
          /\ RedisCall(ok)
          /\ IF ok
             THEN /\ queue' = Rpush(queue,
                                     MakeJob(s, prompt[s], max_tokens[s]))
                  /\ pushed' = Append(pushed, s)
                  /\ spc' = [spc EXCEPT ![s] = StepAfter("rpush")]
                  /\ UNCHANGED outcome
             ELSE /\ outcome' = [outcome EXCEPT ![s] = "error"]
                  /\ spc' = [spc EXCEPT ![s] = "tell"]
                  /\ UNCHANGED <<queue, pushed>>
    /\ UNCHANGED <<subscribed, inbox, sent, everSubscribed, published,
                   connected, workerVars, popCount, interrupted, emitted,
                   prompt, max_tokens, message, api, popped, backend, clock>>

\* gateway.py:846-848: `async for message in pubsub.listen()` hands over the
\* next bus message, which is decoded at once; a payload that does not decode
\* raises JSONDecodeError
Take(s) ==
    /\ spc[s] = "listen"
    /\ inbox[s] # <<>>
    /\ RedisCall(TRUE)
    /\ LET data == NextBusMessage(inbox[s]) IN
       /\ inbox' = [inbox EXCEPT ![s] = Tail(@)]
       /\ IF Decodes(data)
          THEN /\ message' = [message EXCEPT ![s] = data]
               /\ spc' = [spc EXCEPT ![s] = "forward"]
          ELSE /\ spc' = [spc EXCEPT ![s] = "invalid_json"]
               /\ UNCHANGED message
    /\ UNCHANGED <<sent, outcome, prompt, max_tokens, subscribed>>
    /\ UNCHANGED <<queue, everSubscribed, published, connected, workerVars,
                   popCount, interrupted, emitted, api, pushed, popped,
                   backend, clock>>

\* gateway.py:846, 882-884: listen() reads from Redis and raises when the
\* read fails, whether or not a message waits; `except Exception` counts an
\* error
ListenRaises(s) ==
    /\ spc[s] = "listen"
    /\ RedisCall(FALSE)
    /\ outcome' = [outcome EXCEPT ![s] = "error"]
    /\ spc' = [spc EXCEPT ![s] = "tell"]
    /\ UNCHANGED <<sent, prompt, max_tokens, subscribed, inbox, message>>
    /\ UNCHANGED <<queue, everSubscribed, published, connected, workerVars,
                   popCount, interrupted, emitted, api, pushed, popped,
                   backend, clock>>

Listen(s) == Take(s) \/ ListenRaises(s)

\* gateway.py:850-861, 872: write the decoded payload to the client, then
\* look at its type: a payload without .get raises AttributeError after it
\* was written, a complete or error message goes on to its counter, anything
\* else goes on listening.  `data` stays at hand for the bookkeeping that
\* follows the success counter (863-868).  send_json on a closed transport
\* raises.
Relay(s) ==
    /\ spc[s] = "forward"
    /\ LET data == message[s] IN
       IF ~connected[s]
       THEN /\ \E exc \in SendFailures : Raised(s, exc)
            /\ UNCHANGED sent
            /\ message' = [message EXCEPT ![s] = NoMessage]
       ELSE /\ sent' = [sent EXCEPT ![s] = Append(@, data)]
            /\ spc' = [spc EXCEPT ![s] =
                         IF ~HasGet(data) THEN "count_exception"
                         ELSE IF ~IsTerminal(data) THEN "listen"
                         ELSE IF data.type = "complete"
                         THEN "count_success" ELSE "count_error"]
            /\ message' = [message EXCEPT ![s] =
                             IF HasGet(data) /\ data.type = "complete"
                             THEN data ELSE NoMessage]
            /\ UNCHANGED outcome
    /\ UNCHANGED <<prompt, max_tokens, subscribed, inbox>>
    /\ UNCHANGED <<queue, everSubscribed, published, connected, workerVars,
                   popCount, interrupted, emitted, faults, api, pushed, popped,
                   backend, clock>>

\* the client closes its end of the transport
ClientDisconnect(s) ==
    /\ spc[s] # "closed"
    /\ connected[s]
    /\ connected' = [connected EXCEPT ![s] = FALSE]
    /\ UNCHANGED <<queue, subscribed, everSubscribed, inbox, published, spc,
                   sent, outcome, workerVars, popCount, interrupted, emitted,
                   faults, prompt, max_tokens, message, api,
                   pushed, popped, backend,
                   clock>>

\* ------------------------------------------------- worker: one driver
\* time passes
Tick ==
    /\ clock < MaxClock
    /\ clock' = clock + 1
    /\ UNCHANGED <<queue, subscribed, everSubscribed, inbox, published,
                   gatewayVars, workerVars, popCount, interrupted, emitted,
                   faults, pushed, popped, backend>>

\* process_job's check of the parsed payload (worker.py:327)
ValidJob(j) == j.request_id # NoReq /\ j.prompt # ""

\* worker.py:331: prompt[:50] raises TypeError for a prompt that cannot be
\* sliced; process_job swallows it (342-343) before stream_inference is called
Sliceable(text) == text # NotText

\* worker.py:250: the characters that are published as tokens
IsPublished(c) == IsPrintable(c) \/ IsLetThroughWhitespace(c)

\* positions of a worker whose process has ended: main returned, sys.exit(1),
\* an exception nothing caught, or the process was killed from outside
Stopped == {"exited", "exit1", "uncaught", "killed"}

\* What the startup checks can find on the machine: the llama-completion
\* binary, whether llama-cli can be run, the model file.
Installs == [completion : {"absent", "noexec", "ok"},
             cli : {"broken", "ok"},
             model : {"absent", "empty", "ok"}]

\* worker.py:117-135: llama-completion must exist; llama-cli --version must
\* be runnable (its exit status is not looked at)
verify_llama_binary(env) == env.completion # "absent" /\ env.cli = "ok"

\* worker.py:138-146: the model path must exist (its size is only printed)
verify_model(env) == env.model # "absent"

\* the prerequisites themselves: generation binary present and executable,
\* model file present and non-empty
PrerequisitesHold(env) == env.completion = "ok" /\ env.model = "ok"

\* worker.py:367-373: the startup checks; a failed one ends in sys.exit(1)
Verify(w) ==
    /\ wpc[w] = "verify"
    /\ \E env \in Installs :
          IF verify_llama_binary(env) /\ verify_model(env)
          THEN /\ wpc' = [wpc EXCEPT ![w] = "connect"]
               /\ preconditions' = [preconditions EXCEPT ![w] =
                     IF PrerequisitesHold(env) THEN "held" ELSE "violated"]
          ELSE /\ wpc' = [wpc EXCEPT ![w] = "exit1"]
               /\ preconditions' = [preconditions EXCEPT ![w] = "violated"]
    /\ UNCHANGED <<queue, subscribed, everSubscribed, inbox, published,
                   gatewayVars, running, job, current_process, token_count,
                   full_output, popCount, interrupted, emitted, faults,
                   returncode, orphans, stderr_output, parsed,
                   retries, stderr_pipe, pushed, popped, backend,
                   clock, timingVars>>

\* worker.py:375 and 149-162: connect_redis before the loop pings the
\* backend; nothing catches what the ping raises, so a backend that cannot
\* be reached, or a ping that fails, ends the process with a traceback
Connect(w) ==
    /\ wpc[w] = "connect"
    /\ \E ok \in BOOLEAN :
          /\ RedisCall(ok)
          /\ wpc' = [wpc EXCEPT ![w] = IF ok THEN "loop" ELSE "uncaught"]
    /\ UNCHANGED <<queue, subscribed, everSubscribed, inbox, published,
                   gatewayVars, running, job, current_process, token_count,
                   full_output, popCount, interrupted, emitted, workerAux,
                   pushed, popped, backend, clock, timingVars>>

\* worker.py:380: `while running`
LoopContinues(flag) == flag

LoopTest(w) ==
    /\ wpc[w] = "loop"
    /\ wpc' = [wpc EXCEPT ![w] =
                  IF LoopContinues(running[w]) THEN "blpop" ELSE "exited"]
    /\ UNCHANGED <<queue, subscribed, everSubscribed, inbox, published,
                   gatewayVars, running, job, current_process, token_count,
                   full_output, popCount, interrupted, emitted, faults,
                   workerAux,
                   pushed, popped, backend,
                   clock, timingVars>>

\* worker.py:382-397 and 319-343: BLPOP with a timeout, then process_job up
\* to the call of stream_inference (209-212: nothing shared is touched).  An
\* unreachable backend makes blpop raise ConnectionError (388); any other
\* failure of the call is caught at 396 and the loop goes on at once.
Blpop(w) ==
    /\ wpc[w] = "blpop"
    /\ \E ok \in BOOLEAN :
       IF backend = "down"
       THEN /\ ~ok
            /\ wpc' = [wpc EXCEPT ![w] = "backoff"]
            /\ UNCHANGED <<queue, job, popCount, popped, job_start_time,
                           faults>>
       ELSE IF ~ok
       THEN /\ Fault(ok)
            /\ wpc' = [wpc EXCEPT ![w] = "loop"]
            /\ UNCHANGED <<queue, job, popCount, popped, job_start_time>>
       ELSE IF queue = <<>>
       THEN /\ wpc' = [wpc EXCEPT ![w] = "loop"]
            /\ UNCHANGED <<queue, job, popCount, popped, job_start_time,
                           faults>>
       ELSE LET job_data == BlpopHead(queue) IN
            /\ queue' = BlpopRest(queue)
            /\ popCount' = [popCount EXCEPT ![job_data.request_id] = @ + 1]
            /\ popped' = Append(popped, job_data.request_id)
            /\ UNCHANGED faults
            /\ IF ValidJob(job_data) /\ Sliceable(job_data.prompt)
               THEN /\ job' = [job EXCEPT ![w] = job_data]
                    /\ job_start_time' = [job_start_time EXCEPT ![w] = clock]
                    /\ wpc' = [wpc EXCEPT ![w] = "start"]
               ELSE /\ wpc' = [wpc EXCEPT ![w] = "loop"]
                    /\ UNCHANGED <<job, job_start_time>>
    /\ UNCHANGED <<subscribed, everSubscribed, inbox, published, gatewayVars,
                   running, current_process, token_count, full_output,
                   interrupted, emitted, workerAux,
                   pushed, backend,
                   clock, first_token_time, token_times, driver_metrics>>

\* an exception inside the try block that nothing catches
ExceptionHandlerMissing == "exited"

\* worker.py:306: `except Exception` of stream_inference's try block
ExceptionHandler == "except"

\* worker.py:214-220: publish start (inside the try block)
PublishStart(w) ==
    /\ wpc[w] = "start"
    /\ \E ok \in BOOLEAN :
          /\ RedisCall(ok)
          /\ IF ok
             THEN /\ Publish(job[w].request_id, StartMessage(job[w].request_id))
                  /\ wpc' = [wpc EXCEPT ![w] = "popen"]
             ELSE /\ wpc' = [wpc EXCEPT ![w] = ExceptionHandler]
                  /\ UNCHANGED <<published, inbox>>
    /\ UNCHANGED <<queue, subscribed, everSubscribed, gatewayVars, running, job,
                   current_process, token_count, full_output, popCount,
                   interrupted, emitted, workerAux,
                   pushed, popped, backend,
                   clock, timingVars>>

\* worker.py:222-234: spawn the subprocess, reset the counters
Popen(w) ==
    /\ wpc[w] = "popen"
    /\ \E ok \in BOOLEAN :
          /\ Fault(ok)
          /\ IF ok
             THEN /\ current_process' = [current_process EXCEPT ![w] = "running"]
                  /\ token_count' = [token_count EXCEPT ![w] = 0]
                  /\ full_output' = [full_output EXCEPT ![w] = <<>>]
                  /\ wpc' = [wpc EXCEPT ![w] = "read"]
             ELSE /\ wpc' = [wpc EXCEPT ![w] = ExceptionHandler]
                  /\ UNCHANGED <<current_process, token_count, full_output>>
    /\ UNCHANGED <<queue, subscribed, everSubscribed, inbox, published,
                   gatewayVars, running, job, popCount, interrupted, emitted,
                   workerAux,
                   pushed, popped, backend,
                   clock, timingVars>>

\* worker.py:225-226, 238, 261-262: stdout and stderr of the subprocess are
\* pipes, and stderr is read only after stdout's end of stream and wait().
\* A subprocess that is alive and finds the stderr pipe full is suspended in
\* its write: it writes nothing more to stdout, does not close it and does
\* not exit.
Stalled(w) == current_process[w] = "running" /\ stderr_pipe[w] = "full"

\* the subprocess has written as many diagnostics as the stderr pipe holds
StderrFills(w) ==
    /\ wpc[w] \in {"read", "complete"}
    /\ current_process[w] = "running"
    /\ stderr_pipe[w] = "room"
    /\ stderr_pipe' = [stderr_pipe EXCEPT ![w] = "full"]
    /\ UNCHANGED <<queue, subscribed, everSubscribed, inbox, published,
                   gatewayVars, wpc, running, job, current_process,
                   token_count, full_output, popCount, interrupted, emitted,
                   faults, returncode, orphans, preconditions, stderr_output,
                   parsed, retries, pushed, popped, backend, clock,
                   timingVars>>

\* worker.py:237-258: one iteration of the read loop.  read(1) returns the
\* next character the subprocess wrote, or "" at end of stream, or raises;
\* it does not return while the subprocess is suspended.
\* `alphabet` are the characters the subprocess of a scenario may write.
ReadCharFrom(w, alphabet) ==
    /\ wpc[w] = "read"
    /\ ~Stalled(w)
    /\ emitted < MaxOut
    /\ emitted' = emitted + 1
    /\ \E char \in alphabet, ok \in BOOLEAN :
          /\ full_output' = [full_output EXCEPT ![w] = Append(@, char)]
          /\ first_token_time' = [first_token_time EXCEPT ![w] =
                IF @ = NoTime /\ ~StripsToNothing(char) THEN clock ELSE @]
          /\ IF IsPublished(char)
             THEN /\ RedisCall(ok)
                  /\ token_count' = [token_count EXCEPT ![w] = @ + 1]
                  /\ IF ok
                     THEN /\ Publish(job[w].request_id,
                                     TokenMessage(job[w].request_id,
                                                  token_count'[w], char))
                          /\ token_times' =
                                [token_times EXCEPT ![w] = Append(@, clock)]
                          /\ UNCHANGED wpc
                     ELSE /\ wpc' = [wpc EXCEPT ![w] = ExceptionHandler]
                          /\ UNCHANGED <<published, inbox, token_times>>
             ELSE /\ ok
                  /\ UNCHANGED <<token_count, published, inbox, wpc, faults,
                                 token_times>>
    /\ UNCHANGED <<queue, subscribed, everSubscribed, gatewayVars, running, job,
                   current_process, popCount, interrupted, workerAux,
                   pushed, popped, backend,
                   clock, job_start_time, driver_metrics>>

ReadChar(w) == ReadCharFrom(w, Chars)

\* worker.py:238-240: end of stream leaves the loop; an I/O error raises
ReadEnd(w) ==
    /\ wpc[w] = "read"
    /\ ~Stalled(w)
    /\ \E ok \in BOOLEAN :
          /\ Fault(ok)
          /\ wpc' = [wpc EXCEPT ![w] = IF ok THEN "complete" ELSE ExceptionHandler]
    /\ UNCHANGED <<queue, subscribed, everSubscribed, inbox, published,
                   gatewayVars, running, job, current_process, token_count,
                   full_output, popCount, interrupted, emitted, workerAux,
                   pushed, popped, backend,
                   clock, timingVars>>

\* worker.py:260-295: wait for the exit (the exit status is stored in the
\* handle and never read), read stderr, take the times, parse the metrics,
\* compute tokens_per_second, publish complete.  A read of stderr that
\* raises (262) leaves stderr_output as it was set at 233 and nothing of
\* 264-295 runs; a parse that raises (271) comes after the times of 264-268
\* and before tokens_per_second (274).  Both are failures of the run.
\* wait() does not return while the subprocess is suspended.
PublishComplete(w) ==
    /\ wpc[w] = "complete"
    /\ ~Stalled(w)
    /\ current_process' = [current_process EXCEPT ![w] = "exited"]
    /\ \E status \in {"zero", "nonzero"} :
          returncode' = [returncode EXCEPT ![w] = status]
    /\ \E stderr \in Stderrs, ok \in BOOLEAN :
          LET metrics == DriverMetrics(job_start_time[w], first_token_time[w],
                                       clock, token_count[w])
          IN
          IF DecodeRaises(stderr)
          THEN /\ ~ok
               /\ faults < MaxFaults
               /\ faults' = faults + 1
               /\ wpc' = [wpc EXCEPT ![w] = ExceptionHandler]
               /\ UNCHANGED <<stderr_output, parsed, driver_metrics,
                              published, inbox>>
          ELSE
          /\ stderr_output' = [stderr_output EXCEPT ![w] = stderr]
          /\ IF ParseRaises(stderr)
             THEN /\ ~ok
                  /\ faults < MaxFaults
                  /\ faults' = faults + 1
                  /\ parsed' = [parsed EXCEPT ![w] = "raised"]
                  /\ driver_metrics' = [driver_metrics EXCEPT ![w] =
                        [metrics EXCEPT !.tokens_per_second =
                            driver_metrics[w].tokens_per_second]]
                  /\ wpc' = [wpc EXCEPT ![w] = ExceptionHandler]
                  /\ UNCHANGED <<published, inbox>>
             ELSE /\ RedisCall(ok)
                  /\ parsed' = [parsed EXCEPT ![w] = "returned"]
                  /\ driver_metrics' = [driver_metrics EXCEPT ![w] = metrics]
                  /\ IF ok
                     THEN /\ Publish(job[w].request_id,
                                     CompleteMessage(job[w].request_id,
                                                     token_count[w],
                                                     parse_llama_metrics(stderr)))
                          /\ wpc' = [wpc EXCEPT ![w] = "finally"]
                     ELSE /\ wpc' = [wpc EXCEPT ![w] = ExceptionHandler]
                          /\ UNCHANGED <<published, inbox>>
    /\ UNCHANGED <<queue, subscribed, everSubscribed, gatewayVars, running, job,
                   token_count, full_output, popCount, interrupted, emitted,
                   orphans, preconditions, retries, stderr_pipe, pushed,
                   popped, backend,
                   clock, job_start_time, first_token_time, token_times>>

\* worker.py:306-312: publish error; if that raises too, the exception leaves
\* stream_inference (through finally) and process_job swallows it (342-343).
PublishError(w) ==
    /\ wpc[w] = "except"
    /\ \E ok \in BOOLEAN :
          /\ RedisCall(ok)
          /\ IF ok
             THEN Publish(job[w].request_id, ErrorMessage(job[w].request_id))
             ELSE UNCHANGED <<published, inbox>>
    /\ wpc' = [wpc EXCEPT ![w] = "finally"]
    /\ UNCHANGED <<queue, subscribed, everSubscribed, gatewayVars, running, job,
                   current_process, token_count, full_output, popCount,
                   interrupted, emitted, workerAux,
                   pushed, popped, backend,
                   clock, timingVars>>

\* worker.py:313-316: a subprocess that still runs is sent terminate() and
\* nobody waits for it: it may or may not be gone when the handle is dropped;
\* process_job then returns to the main loop.
Finally(w) ==
    /\ wpc[w] = "finally"
    /\ IF current_process[w] = "running"
       THEN \E gone \in BOOLEAN :
               orphans' = [orphans EXCEPT ![w] = @ \/ ~gone]
       ELSE UNCHANGED orphans
    /\ current_process' = [current_process EXCEPT ![w] = "none"]
    /\ returncode' = [returncode EXCEPT ![w] = "none"]
    /\ stderr_output' = [stderr_output EXCEPT ![w] = {}]
    /\ parsed' = [parsed EXCEPT ![w] = "none"]
    /\ stderr_pipe' = [stderr_pipe EXCEPT ![w] = "room"]
    /\ job_start_time' = [job_start_time EXCEPT ![w] = NoTime]
    /\ first_token_time' = [first_token_time EXCEPT ![w] = NoTime]
    /\ token_times' = [token_times EXCEPT ![w] = <<>>]
    /\ driver_metrics' = [driver_metrics EXCEPT ![w] = NoDriverMetrics]
    /\ job' = [job EXCEPT ![w] = NoJob]
    /\ wpc' = [wpc EXCEPT ![w] = "loop"]
    /\ UNCHANGED <<queue, subscribed, everSubscribed, inbox, published,
                   gatewayVars, running, token_count, full_output, popCount,
                   interrupted, emitted, faults, preconditions, retries,
                   pushed, popped, backend,
                   clock>>

\* worker.py:103-114: SIGINT/SIGTERM.  The handler runs between two steps of
\* the main thread: it clears `running` and, if a subprocess is alive,
\* terminates it (kill after the grace wait), so the handle is dead afterwards.
SignalHandler(w) ==
    /\ wpc[w] \notin Stopped
    /\ running[w] \/ current_process[w] = "running"
    /\ running' = [running EXCEPT ![w] = FALSE]
    /\ current_process' = [current_process EXCEPT ![w] =
                              IF @ = "running" THEN "exited" ELSE @]
    /\ interrupted' = IF current_process[w] = "running" /\ wpc[w] = "read"
                      THEN interrupted \cup {job[w].request_id}
                      ELSE interrupted
    /\ UNCHANGED <<queue, subscribed, everSubscribed, inbox, published,
                   gatewayVars, wpc, job, token_count, full_output, popCount,
                   emitted, faults, workerAux,
                   pushed, popped, backend,
                   clock, timingVars>>

\* a queue that puts the job of a dead worker back
CrashRequeues(w) ==
    /\ wpc[w] \notin Stopped
    /\ wpc' = [wpc EXCEPT ![w] = "killed"]
    /\ queue' = IF job[w] # NoJob THEN Append(queue, job[w]) ELSE queue
    /\ UNCHANGED <<subscribed, everSubscribed, inbox, published,
                   gatewayVars, running, job, current_process, token_count,
                   full_output, popCount, interrupted, emitted, faults,
                   workerAux, pushed, popped, backend,
                   clock, timingVars>>

\* the worker process dies (SIGKILL, out of memory, host loss): nothing of
\* worker.py runs any more
Crash(w) ==
    /\ wpc[w] \notin Stopped
    /\ wpc' = [wpc EXCEPT ![w] = "killed"]
    /\ UNCHANGED <<queue, subscribed, everSubscribed, inbox, published,
                   gatewayVars, running, job, current_process, token_count,
                   full_output, popCount, interrupted, emitted, faults,
                   workerAux,
                   pushed, popped, backend,
                   clock, timingVars>>

\* a failed reconnect that ends the worker
ReconnectFailedFatal == "exited"

\* worker.py:392-395: `except Exception: pass` around connect_redis; the loop
\* goes on with the client it had
ReconnectFailed == "loop"

\* worker.py:388-391: ConnectionError caught in the loop; sleep 5 seconds
Backoff(w) ==
    /\ wpc[w] = "backoff"
    /\ wpc' = [wpc EXCEPT ![w] = "reconnect"]
    /\ UNCHANGED <<queue, subscribed, everSubscribed, inbox, published,
                   gatewayVars, running, job, current_process, token_count,
                   full_output, popCount, interrupted, emitted, faults,
                   workerAux, pushed, popped, backend,
                   clock, timingVars>>

\* worker.py:392-395 and 149-163: connect_redis pings the backend and raises
\* when it is unreachable
Reconnect(w) ==
    /\ wpc[w] = "reconnect"
    /\ IF backend = "up"
       THEN /\ wpc' = [wpc EXCEPT ![w] = "loop"]
            /\ UNCHANGED retries
       ELSE /\ wpc' = [wpc EXCEPT ![w] = ReconnectFailed]
            /\ retries' = [retries EXCEPT ![w] =
                              IF @ < MaxRetries THEN @ + 1 ELSE @]
    /\ UNCHANGED <<queue, subscribed, everSubscribed, inbox, published,
                   gatewayVars, running, job, current_process, token_count,
                   full_output, popCount, interrupted, emitted, faults,
                   returncode, orphans, preconditions, stderr_output, parsed,
                   stderr_pipe, pushed, popped, backend,
                   clock, timingVars>>

\* the backend becomes unreachable, and reachable again
BackendDown ==
    /\ backend = "up"
    /\ backend' = "down"
    /\ UNCHANGED <<queue, subscribed, everSubscribed, inbox, published,
                   gatewayVars, workerVars, popCount, interrupted, emitted,
                   faults, pushed, popped,
                   clock>>

BackendUp ==
    /\ backend = "down"
    /\ backend' = "up"
    /\ UNCHANGED <<queue, subscribed, everSubscribed, inbox, published,
                   gatewayVars, workerVars, popCount, interrupted, emitted,
                   faults, pushed, popped,
                   clock>>

\* some other client of the bus publishes, on the channel of a session that
\* is subscribed, a payload that is no message of a worker (once per channel)
PublishForeign(r, payloads) ==
    /\ r \in subscribed
    /\ \A i \in 1..Len(published[r]) : published[r][i] \notin ForeignPayloads
    /\ \E payload \in payloads : Publish(r, payload)
    /\ UNCHANGED <<queue, subscribed, everSubscribed, gatewayVars, workerVars,
                   popCount, interrupted, emitted, faults, pushed, popped,
                   backend,
                   clock>>

\* the payload is not JSON
PublishMalformed(r) == PublishForeign(r, {Malformed})

\* gateway.py:131-134: the body FastAPI accepts for GenerateRequest; a body
\* without a prompt field is answered 422 before api_generate runs, and
\* max_tokens is any integer, DEFAULT_MAX_TOKENS when the field is absent
ApiBodies ==
    {[has_prompt |-> TRUE, prompt |-> "p", max_tokens |-> DEFAULT_MAX_TOKENS],
     [has_prompt |-> TRUE, prompt |-> "p", max_tokens |-> 0],
     [has_prompt |-> TRUE, prompt |-> "", max_tokens |-> DEFAULT_MAX_TOKENS],
     [has_prompt |-> FALSE, prompt |-> "", max_tokens |-> DEFAULT_MAX_TOKENS]}

GenerateRequestValid(body) == body.has_prompt

\* gateway.py:900-921: the submission-only interface.  A body FastAPI
\* rejects never reaches api_generate: no Redis call is made for it.
ApiGenerate(r) ==
    /\ api[r] = NoAnswer
    /\ \E body \in ApiBodies :
          IF ~GenerateRequestValid(body)
          THEN /\ api' = [api EXCEPT ![r] =
                             [status |-> "rejected", prompt |-> body.prompt]]
               /\ UNCHANGED <<queue, pushed, faults>>
          ELSE \E ok \in BOOLEAN :
                  /\ RedisCall(ok)
                  /\ IF ok
                     THEN /\ queue' = Rpush(queue,
                                  MakeJob(r, body.prompt, body.max_tokens))
                          /\ pushed' = Append(pushed, r)
                          /\ api' = [api EXCEPT ![r] =
                                        [status |-> "queued",
                                         prompt |-> body.prompt]]
                     ELSE /\ api' = [api EXCEPT ![r] =
                                        [status |-> "failed",
                                         prompt |-> body.prompt]]
                          /\ UNCHANGED <<queue, pushed>>
    /\ UNCHANGED <<subscribed, everSubscribed, inbox, published, spc, connected,
                   sent, outcome, prompt, max_tokens, message, workerVars,
                   popCount,
                   interrupted, emitted,
                   popped, backend,
                   clock>>

\* ------------------------------------------------------- specification
Next ==
    \/ \E s \in Sessions : ReceiveFrom(s, DefaultLimitFrames)
    \/ \E s \in Sessions : Subscribe(s)
    \/ \E s \in Sessions : Push(s)
    \/ \E s \in Sessions : Listen(s)
    \/ \E s \in Sessions : Relay(s)
    \/ \E s \in Sessions : SendPromptError(s)
    \/ \E s \in Sessions : SendDecodeError(s)
    \/ \E s \in Sessions : Count(s)
    \/ \E s \in Sessions : Tell(s)
    \/ \E s \in Sessions : Unsubscribe(s)
    \/ \E s \in Sessions : Close(s)
    \/ \E s \in Sessions : ClientDisconnect(s)
    \/ \E w \in Workers : LoopTest(w)
    \/ \E w \in Workers : Blpop(w)
    \/ \E w \in Workers : PublishStart(w)
    \/ \E w \in Workers : Popen(w)
    \/ \E w \in Workers : StderrFills(w)
    \/ \E w \in Workers : ReadCharFrom(w, TextChars)
    \/ \E w \in Workers : ReadEnd(w)
    \/ \E w \in Workers : PublishComplete(w)
    \/ \E w \in Workers : PublishError(w)
    \/ \E w \in Workers : Finally(w)
    \/ \E w \in Workers : SignalHandler(w)
    \/ LifespanShutdown

Spec == Init /\ [][Next]_vars

\* the pool of workers serving two concurrent sessions: no signal, no
\* disconnect
NextPool ==
    \/ \E s \in Sessions : ReceiveFrom(s, RequestFrames)
    \/ \E s \in Sessions : Subscribe(s)
    \/ \E s \in Sessions : Push(s)
    \/ \E s \in Sessions : Take(s)
    \/ \E s \in Sessions : Relay(s)
    \/ \E s \in Sessions : Count(s)
    \/ \E s \in Sessions : Unsubscribe(s)
    \/ \E s \in Sessions : Close(s)
    \/ \E w \in Workers : LoopTest(w)
    \/ \E w \in Workers : Blpop(w)
    \/ \E w \in Workers : PublishStart(w)
    \/ \E w \in Workers : Popen(w)
    \/ \E w \in Workers : ReadEnd(w)
    \/ \E w \in Workers : PublishComplete(w)
    \/ \E w \in Workers : Finally(w)

SpecPool == InitPool /\ [][NextPool]_vars

\* the steps of one gateway session and of one worker's main thread
\* the steps of a session's coroutine.  A listen() that raises is a failure
\* of the bus, not a step the event loop owes the session.
SessionStep(s) ==
    \/ Receive(s) \/ Subscribe(s) \/ Push(s) \/ Take(s) \/ Relay(s)
    \/ SendPromptError(s) \/ SendDecodeError(s) \/ Count(s) \/ Tell(s)
    \/ Unsubscribe(s) \/ Close(s)

\* the steps of a worker's main thread.  read(1) and wait() are steps only
\* when they can return: the subprocess's progress is not the worker's.
WorkerStep(w) ==
    \/ Verify(w) \/ Connect(w) \/ LoopTest(w) \/ Blpop(w) \/ PublishStart(w) \/ Popen(w)
    \/ ReadChar(w) \/ ReadEnd(w) \/ PublishComplete(w) \/ PublishError(w)
    \/ Finally(w)

\* one session feeding one worker that starts up and can be signalled at any
\* point
InitFair == InitWith({1}, {1}, "verify", 0, 0)

NextFair ==
    \/ \E s \in Sessions : ReceiveFrom(s, RequestFrames)
    \/ \E s \in Sessions : Subscribe(s)
    \/ \E s \in Sessions : Push(s)
    \/ \E s \in Sessions : Listen(s)
    \/ \E s \in Sessions : Relay(s)
    \/ \E s \in Sessions : Count(s)
    \/ \E s \in Sessions : Tell(s)
    \/ \E s \in Sessions : Unsubscribe(s)
    \/ \E s \in Sessions : Close(s)
    \/ \E w \in Workers : Verify(w)
    \/ \E w \in Workers : Connect(w)
    \/ \E w \in Workers : LoopTest(w)
    \/ \E w \in Workers : Blpop(w)
    \/ \E w \in Workers : PublishStart(w)
    \/ \E w \in Workers : Popen(w)
    \/ \E w \in Workers : StderrFills(w)
    \/ \E w \in Workers : ReadCharFrom(w, TextChars)
    \/ \E w \in Workers : ReadEnd(w)
    \/ \E w \in Workers : PublishComplete(w)
    \/ \E w \in Workers : PublishError(w)
    \/ \E w \in Workers : Finally(w)
    \/ \E w \in Workers : SignalHandler(w)

\* a worker's main thread keeps being scheduled while its process lives
SpecFair ==
    InitFair /\ [][NextFair]_vars /\ \A w \in Workers : WF_vars(WorkerStep(w))

\* one worker from its startup checks on, fed by the submission-only
\* interface, with failures and signals; the subprocesses write nothing
InitStartup == InitWith({}, {1}, "verify", MaxOut, 0)

NextStartup ==
    \/ \E r \in RestIds : ApiGenerate(r)
    \/ \E w \in Workers : Verify(w)
    \/ \E w \in Workers : Connect(w)
    \/ \E w \in Workers : LoopTest(w)
    \/ \E w \in Workers : Blpop(w)
    \/ \E w \in Workers : PublishStart(w)
    \/ \E w \in Workers : Popen(w)
    \/ \E w \in Workers : StderrFills(w)
    \/ \E w \in Workers : ReadEnd(w)
    \/ \E w \in Workers : PublishComplete(w)
    \/ \E w \in Workers : PublishError(w)
    \/ \E w \in Workers : Finally(w)
    \/ \E w \in Workers : SignalHandler(w)

SpecStartup == InitStartup /\ [][NextStartup]_vars

\* the submission-only interface feeding one worker from its startup on; no
\* streaming session
InitApi == InitWith({}, {1}, "verify", 0, 0)

NextApi ==
    \/ \E r \in RestIds : ApiGenerate(r)
    \/ \E w \in Workers : Verify(w)
    \/ \E w \in Workers : Connect(w)
    \/ \E w \in Workers : LoopTest(w)
    \/ \E w \in Workers : Blpop(w)
    \/ \E w \in Workers : PublishStart(w)
    \/ \E w \in Workers : Popen(w)
    \/ \E w \in Workers : ReadChar(w)
    \/ \E w \in Workers : ReadEnd(w)
    \/ \E w \in Workers : PublishComplete(w)
    \/ \E w \in Workers : PublishError(w)
    \/ \E w \in Workers : Finally(w)

SpecApi == InitApi /\ [][NextApi]_vars

\* one streaming session served by a pool of workers that may be killed,
\* with a client that may go away; the event loop and the surviving workers
\* keep being scheduled
InitCrash == InitWith({1}, Workers, "loop", MaxOut, MaxFaults)

NextCrash ==
    \/ \E s \in Sessions : ReceiveFrom(s, TextFrames)
    \/ \E s \in Sessions : Subscribe(s)
    \/ \E s \in Sessions : Push(s)
    \/ \E s \in Sessions : Take(s)
    \/ \E s \in Sessions : Relay(s)
    \/ \E s \in Sessions : Count(s)
    \/ \E s \in Sessions : Tell(s)
    \/ \E s \in Sessions : Unsubscribe(s)
    \/ \E s \in Sessions : Close(s)
    \/ \E s \in Sessions : ClientDisconnect(s)
    \/ \E w \in Workers : LoopTest(w)
    \/ \E w \in Workers : Blpop(w)
    \/ \E w \in Workers : PublishStart(w)
    \/ \E w \in Workers : Popen(w)
    \/ \E w \in Workers : StderrFills(w)
    \/ \E w \in Workers : ReadEnd(w)
    \/ \E w \in Workers : PublishComplete(w)
    \/ \E w \in Workers : Finally(w)
    \/ \E w \in Workers : Crash(w)

SpecCrash ==
    /\ InitCrash
    /\ [][NextCrash]_vars
    /\ \A s \in Sessions : WF_vars(SessionStep(s))
    /\ \A w \in Workers : WF_vars(WorkerStep(w))

\* one streaming session and one worker, with a client that sends a request
\* and may go away, injected failures and a foreign publisher
InitBus == InitWith({1}, {1}, "loop", MaxOut, 0)

NextBus ==
    \/ \E s \in Sessions : ReceiveFrom(s, RequestFrames)
    \/ \E s \in Sessions : Subscribe(s)
    \/ \E s \in Sessions : Push(s)
    \/ \E s \in Sessions : Listen(s)
    \/ \E s \in Sessions : Relay(s)
    \/ \E s \in Sessions : SendDecodeError(s)
    \/ \E s \in Sessions : Count(s)
    \/ \E s \in Sessions : Tell(s)
    \/ \E s \in Sessions : Unsubscribe(s)
    \/ \E s \in Sessions : Close(s)
    \/ \E s \in Sessions : ClientDisconnect(s)
    \/ \E s \in Sessions : PublishForeign(s, ForeignPayloads)
    \/ \E w \in Workers : LoopTest(w)
    \/ \E w \in Workers : Blpop(w)
    \/ \E w \in Workers : PublishStart(w)
    \/ \E w \in Workers : Popen(w)
    \/ \E w \in Workers : ReadEnd(w)
    \/ \E w \in Workers : PublishComplete(w)
    \/ \E w \in Workers : PublishError(w)
    \/ \E w \in Workers : Finally(w)

SpecBus == InitBus /\ [][NextBus]_vars

\* two requests served one after the other by one worker, with injected
\* failures and a foreign publisher of undecodable payloads
InitSerial == InitWith({1, 2} \cap Sessions, {1}, "loop", MaxOut, 0)

NextSerial ==
    \/ \E s \in Sessions : ReceiveFrom(s, RequestFrames)
    \/ \E s \in Sessions : Subscribe(s)
    \/ \E s \in Sessions : Push(s)
    \/ \E s \in Sessions : Listen(s)
    \/ \E s \in Sessions : Relay(s)
    \/ \E s \in Sessions : SendDecodeError(s)
    \/ \E s \in Sessions : Count(s)
    \/ \E s \in Sessions : PublishMalformed(s)
    \/ \E s \in Sessions : Tell(s)
    \/ \E s \in Sessions : Unsubscribe(s)
    \/ \E s \in Sessions : Close(s)
    \/ \E w \in Workers : LoopTest(w)
    \/ \E w \in Workers : Blpop(w)
    \/ \E w \in Workers : PublishStart(w)
    \/ \E w \in Workers : Popen(w)
    \/ \E w \in Workers : ReadEnd(w)
    \/ \E w \in Workers : PublishComplete(w)
    \/ \E w \in Workers : PublishError(w)
    \/ \E w \in Workers : Finally(w)

SpecSerial == InitSerial /\ [][NextSerial]_vars

\* one worker fed by the submission-only interface while the backend goes
\* down and comes back; the worker's main thread keeps being scheduled
InitReconnect == InitWith({}, {1}, "loop", MaxOut, MaxFaults)

ReconnectStep(w) == Backoff(w) \/ Reconnect(w)

NextReconnect ==
    \/ \E r \in RestIds : ApiGenerate(r)
    \/ \E w \in Workers : LoopTest(w)
    \/ \E w \in Workers : Blpop(w)
    \/ \E w \in Workers : PublishStart(w)
    \/ \E w \in Workers : Popen(w)
    \/ \E w \in Workers : StderrFills(w)
    \/ \E w \in Workers : ReadEnd(w)
    \/ \E w \in Workers : PublishComplete(w)
    \/ \E w \in Workers : PublishError(w)
    \/ \E w \in Workers : Finally(w)
    \/ \E w \in Workers : Backoff(w)
    \/ \E w \in Workers : Reconnect(w)
    \/ BackendDown
    \/ BackendUp

SpecReconnect ==
    /\ InitReconnect
    /\ [][NextReconnect]_vars
    /\ \A w \in Workers : WF_vars(WorkerStep(w) \/ ReconnectStep(w))

\* one worker fed by the submission-only interface while time passes; no
\* injected failure
InitTime == InitWith({}, {1}, "loop", 0, MaxFaults)

NextTime ==
    \/ \E r \in RestIds : ApiGenerate(r)
    \/ \E w \in Workers : LoopTest(w)
    \/ \E w \in Workers : Blpop(w)
    \/ \E w \in Workers : PublishStart(w)
    \/ \E w \in Workers : Popen(w)
    \/ \E w \in Workers : ReadChar(w)
    \/ \E w \in Workers : ReadEnd(w)
    \/ \E w \in Workers : PublishComplete(w)
    \/ \E w \in Workers : Finally(w)
    \/ Tick

SpecTime == InitTime /\ [][NextTime]_vars

\* ============================================================== claims
IsToken(m) == m.type = "token"
IsComplete(m) == m.type = "complete"
IsStart(m) == m.type = "start"
FromBus(m) == m.request_id # NoReq

Tokens(seq) == SelectSeq(seq, IsToken)
Contents(seq) == [i \in 1..Len(seq) |-> seq[i].content]
IsPrefix(a, b) == Len(a) <= Len(b) /\ SubSeq(b, 1, Len(a)) = a
Last(seq) == seq[Len(seq)]
JobQueued(r) == \E i \in 1..Len(queue) : queue[i].request_id = r

\* `seq` is a prefix of a word of  start token* (complete | error)
StreamPattern(seq) ==
    /\ Len(seq) >= 1 => IsStart(seq[1])
    /\ \A i \in 2..Len(seq) : ~IsStart(seq[i])
    /\ \A i \in 1..Len(seq) : IsTerminal(seq[i]) => i = Len(seq)

\* C1: the messages a driver publishes on a job's channel match
\* start token* (complete | error): start comes first, at most one terminal
\* message, nothing after it.
C1_StreamPattern == \A r \in Req : StreamPattern(published[r])

\* C2: a streaming request's job is in the queue, or has been popped, only
\* after the session subscribed to the request's channel.
C2_SubscribeBeforeEnqueue ==
    \A s \in Sessions :
        /\ (JobQueued(s) \/ popCount[s] > 0) => s \in everSubscribed
        /\ (JobQueued(s) /\ spc[s] \notin {"finally_close", "closed"}) =>
               s \in subscribed

C2_Witness ==
    \E s \in Sessions, w \in Workers :
        /\ s \in subscribed
        /\ job[w].request_id = s
        /\ published[s] # <<>>

\* what a session has taken from its subscription and not yet written,
\* followed by what still waits there
Pending(s) ==
    IF spc[s] = "forward" THEN <<message[s]>> \o inbox[s] ELSE inbox[s]

\* C3: while the client stays connected the session observes every message
\* the driver published for its request: what it forwarded, followed by what
\* it holds and what waits in its subscription, is the whole published
\* stream; what it forwarded never skips a message; and a session that has
\* ended without an error of the gateway's own forwarded all of it.
C3_NoLostMessage ==
    \A s \in Sessions :
        connected[s] =>
            /\ spc[s] \in {"listen", "forward"} =>
                   sent[s] \o Pending(s) = published[s]
            /\ IsPrefix(SelectSeq(sent[s], FromBus), published[s])
            /\ (/\ spc[s] = "closed"
                /\ s \in everSubscribed
                /\ \A i \in 1..Len(sent[s]) : sent[s][i] # GatewayError) =>
                   sent[s] = published[s]

C3_Witness ==
    \E s \in Sessions :
        /\ connected[s]
        /\ spc[s] = "closed"
        /\ outcome[s] = "success"
        /\ Len(sent[s]) >= 3
        /\ IsStart(sent[s][1])

\* C4: every job is popped by at most one worker and processed at most
\* once; no two workers hold the same request_id.
C4_PoppedAtMostOnce ==
    /\ \A r \in Req : popCount[r] <= 1
    /\ \A r \in Req : Len(SelectSeq(published[r], IsStart)) <= 1
    /\ \A w1, w2 \in Workers :
          (w1 # w2 /\ job[w1] # NoJob) => job[w1].request_id # job[w2].request_id

C4_Witness ==
    \E w1, w2 \in Workers :
        /\ w1 # w2
        /\ job[w1] # NoJob
        /\ job[w2] # NoJob
        /\ wpc[w1] = "popen"
        /\ wpc[w2] = "popen"

\* C5: the token_index values of one request's token messages are 1, 2, 3,
\* ... in publication order, on the channel and as the client sees them.
C5_TokenIndexSequence ==
    /\ \A r \in Req :
          \A i \in 1..Len(Tokens(published[r])) :
              Tokens(published[r])[i].token_index = i
    /\ \A s \in Sessions :
          \A i \in 1..Len(Tokens(sent[s])) : Tokens(sent[s])[i].token_index = i

C5_Witness ==
    \E s \in Sessions :
        /\ Len(Tokens(sent[s])) = 2
        /\ Tokens(sent[s])[2].token_index = 2

\* C6: the messages a session forwards are the channel's messages, unchanged
\* and in publication order, and the token messages carry the units in the
\* order the subprocess produced them.
C6_ForwardedInOrder ==
    /\ \A s \in Sessions : IsPrefix(SelectSeq(sent[s], FromBus), published[s])
    /\ \A w \in Workers :
          wpc[w] \in {"read", "complete"} =>
              Contents(Tokens(published[job[w].request_id]))
                  = SelectSeq(full_output[w], IsPublished)

C6_Witness ==
    \E s \in Sessions :
        /\ Len(Tokens(sent[s])) = 2
        /\ Tokens(sent[s])[1].content # Tokens(sent[s])[2].content

\* C7: when complete is published, the concatenation of the content fields
\* of the request's token messages equals the subprocess's raw output.
C7_TokensReconstructOutput ==
    \A w \in Workers :
        (wpc[w] = "finally" /\ published[job[w].request_id] # <<>>
           /\ IsComplete(Last(published[job[w].request_id]))) =>
            Contents(Tokens(published[job[w].request_id])) = full_output[w]

\* C8: the token_count of a complete message is the number of token messages
\* published for the request, which is the last token_index (0 if none).
C8_CompleteCountsTokens ==
    \A r \in Req :
        \A i \in 1..Len(published[r]) :
            IsComplete(published[r][i]) =>
                LET before == Tokens(SubSeq(published[r], 1, i)) IN
                /\ published[r][i].token_count = Len(Tokens(published[r]))
                /\ published[r][i].token_count =
                       IF before = <<>> THEN 0 ELSE Last(before).token_index

C8_Witness ==
    \E r \in Req :
        /\ published[r] # <<>>
        /\ IsComplete(Last(published[r]))
        /\ Last(published[r]).token_count = 1
        /\ \E w \in Workers : job[w].request_id = r /\ Len(full_output[w]) = 2

\* C9: no complete message is published for a request whose subprocess was
\* generating when the driver received the shutdown signal.
C9_NoCompleteAfterSignal ==
    \A r \in interrupted :
        \A i \in 1..Len(published[r]) : ~IsComplete(published[r][i])

\* C10: after a client disconnect mid-stream (some message forwarded, no
\* terminal message seen) the session can go on to release its channel at
\* once: it does not need a further bus message to do so.
C10_ReleaseWithoutBusMessage ==
    \A s \in Sessions :
        (spc[s] = "listen" /\ ~connected[s] /\ sent[s] # <<>>) =>
            ENABLED Take(s)

Holds(w, r) == wpc[w] \notin Stopped /\ job[w].request_id = r
HasError(seq) == \E i \in 1..Len(seq) : seq[i].type = "error"
HasComplete(seq) == \E i \in 1..Len(seq) : IsComplete(seq[i])

\* C11: no subscription leaks: every subscription a session opens is
\* eventually released, whether the client disconnects or workers die.
C11_SubscriptionReleased ==
    \A s \in Sessions : (s \in subscribed) ~> (s \notin subscribed)

\* C12: a streaming request with an empty or missing prompt is rejected
\* before the queue or the bus is touched: no job is pushed, no channel is
\* subscribed, and a client that is still there gets an error and nothing
\* else.
C12_EmptyPromptRejected ==
    \A s \in Sessions :
        prompt[s] = "" =>
            /\ spc[s] \in {"prompt_error", "count_error", "tell", "finally",
                           "finally_close", "closed"}
            /\ ~JobQueued(s)
            /\ popCount[s] = 0
            /\ s \notin everSubscribed
            /\ published[s] = <<>>
            /\ spc[s] = "prompt_error" => sent[s] = <<>>
            /\ spc[s] = "closed" =>
                   \/ sent[s] = <<GatewayError>>
                   \/ ~connected[s] /\ sent[s] = <<>>

C12_Witness ==
    \E s \in Sessions :
        /\ prompt[s] = ""
        /\ spc[s] = "closed"
        /\ sent[s] = <<GatewayError>>
        /\ outcome[s] = "error"

\* C13: on the submission-only interface an empty prompt is rejected: no job
\* is pushed and the caller is not told that the request was queued.
C13_ApiEmptyPromptRejected ==
    \A r \in RestIds :
        (api[r].status # "unused" /\ api[r].prompt = "") =>
            /\ api[r].status # "queued"
            /\ ~JobQueued(r)
            /\ popCount[r] = 0

\* C14: when the subprocess exits with a non-zero status, the last message
\* published for the job is not complete.
C14_NonZeroExitNotComplete ==
    \A w \in Workers :
        (returncode[w] = "nonzero" /\ published[job[w].request_id] # <<>>) =>
            ~IsComplete(Last(published[job[w].request_id]))

\* C15: every job that was popped and given up without a complete message
\* has an error message on its channel.
C15_FailureYieldsError ==
    \A r \in Req :
        (/\ popCount[r] > 0
         /\ \A w \in Workers : ~Holds(w, r)
         /\ ~HasComplete(published[r])) => HasError(published[r])

\* C16: an accepted streaming request whose client stays connected, with at
\* least one worker that keeps running, eventually ends: a session that
\* listens is eventually closed, unless the client went away or every worker
\* stopped.
C16_AcceptedRequestEnds ==
    \A s \in Sessions :
        (spc[s] = "listen") ~>
            (\/ spc[s] = "closed"
             \/ ~connected[s]
             \/ \A w \in Workers : wpc[w] \in Stopped)

\* C17: no failure while a job is processed ends the worker: its main loop
\* is left only after the shutdown signal cleared the flag, sys.exit(1) comes
\* only from a failed startup check, and a worker that ended on an exception
\* had not entered its loop: it never popped a job.
C17_FailureKeepsLoop ==
    \A w \in Workers :
        /\ wpc[w] = "exited" => ~running[w]
        /\ wpc[w] = "exit1" => preconditions[w] = "violated"
        /\ wpc[w] = "uncaught" => (popped = <<>> /\ job[w] = NoJob)
        /\ wpc[w] # "killed"

C17_Witness ==
    \E w \in Workers, r \in Req :
        /\ HasError(published[r])
        /\ popCount[r] > 0
        /\ job[w] = NoJob
        /\ wpc[w] = "blpop"
        /\ running[w]

\* C18: once the worker has shut down after a termination signal, no
\* subprocess it spawned is still running.
C18_NoSubprocessAfterShutdown ==
    \A w \in Workers :
        (wpc[w] = "exited" /\ ~running[w]) =>
            (~orphans[w] /\ current_process[w] # "running")

\* C19: the termination signal clears the running flag and leaves no active
\* subprocess behind the handle, and from then on the worker's process
\* eventually ends.
C19_SignalStopsWorker ==
    /\ [][\A w \in Workers :
             (running[w] /\ ~running'[w]) =>
                 current_process'[w] # "running"]_vars
    /\ \A w \in Workers : (~running[w]) ~> (wpc[w] \in Stopped)

\* C20: a worker takes a job only if, at startup, the generation binary was
\* present and executable and the model file existed and was not empty.
C20_PopOnlyWithPrerequisites ==
    \A w \in Workers : job[w] # NoJob => preconditions[w] = "held"

PushCount(r) == Len(SelectSeq(pushed, LAMBDA x : x = r))
Accepted(r) == IF r \in Sessions THEN spc[r] = "listen"
               ELSE api[r].status = "queued"

\* C21: for every accepted request, streaming or submission-only, exactly
\* one job was pushed and a channel subscription was opened for its
\* request_id.
C21_OneJobOneSubscription ==
    \A r \in Req : Accepted(r) => (PushCount(r) = 1 /\ r \in everSubscribed)

\* C22: a complete or error message from the channel is the last message the
\* session forwards; once it is forwarded the session goes on to its teardown
\* and, when it has ended, its subscription is released.
C22_TerminalEndsRelay ==
    \A s \in Sessions :
        \A i \in 1..Len(sent[s]) :
            (FromBus(sent[s][i]) /\ sent[s][i].type \in {"complete", "error"})
                => /\ i = Len(sent[s])
                   /\ spc[s] \in {"count_success", "count_error", "finally",
                                  "finally_close", "closed"}
                   /\ spc[s] = "closed" => s \notin subscribed

\* C23: distinct requests have distinct channel names, and every message in a
\* session's inbox or forwarded to its client carries the session's own
\* request_id (or none, for the gateway's own errors).
C23_OwnMessagesOnly ==
    /\ \A a, b \in Req : a # b => channel(a) # channel(b)
    /\ \A s \in Sessions :
          /\ \A i \in 1..Len(sent[s]) : sent[s][i].request_id \in {s, NoReq}
          /\ \A i \in 1..Len(Pending(s)) : Pending(s)[i].request_id = s

C23_Witness ==
    \E s, u \in Sessions :
        /\ s # u
        /\ spc[s] = "listen" /\ sent[s] # <<>> /\ FromBus(sent[s][1])
        /\ spc[u] = "listen" /\ sent[u] # <<>> /\ FromBus(sent[u][1])
        /\ \E w, v \in Workers :
              w # v /\ job[w].request_id = s /\ job[v].request_id = u

C25_PoppedInPushOrder == IsPrefix(popped, pushed)

C25_Witness ==
    /\ Len(pushed) >= 2
    /\ popped = pushed
    /\ \E w, v \in Workers :
          w # v /\ job[w].request_id = pushed[1] /\ job[v].request_id = pushed[2]

\* C26: the job held by a worker that died is not on the queue, was popped
\* once, and no other worker holds it.
C26_NoRedelivery ==
    \A w \in Workers :
        (wpc[w] = "killed" /\ job[w] # NoJob) =>
            /\ ~JobQueued(job[w].request_id)
            /\ popCount[job[w].request_id] = 1
            /\ \A v \in Workers \ {w} : job[v].request_id # job[w].request_id

C26_Witness ==
    \E w, v \in Workers :
        /\ w # v
        /\ wpc[w] = "killed" /\ job[w] # NoJob
        /\ wpc[v] = "blpop" /\ job[v] = NoJob
        /\ queue = <<>>

\* the last bus message the session took is an undecodable payload
TookMalformed(s) ==
    LET taken == Len(published[s]) - Len(inbox[s])
    IN taken >= 1 /\ published[s][taken] = Malformed

\* C27: a session that took an undecodable payload from the bus forwards
\* nothing but an error of its own, and the step that ends it releases its
\* subscription and touches no other session.
C27_MalformedPayloadEndsOneSession ==
    [][\A s \in Sessions :
          (/\ spc[s] \in {"finally", "finally_close"}
           /\ TookMalformed(s)
           /\ spc'[s] = "closed") =>
              /\ s \notin subscribed'
              /\ sent'[s] = sent[s]
              /\ sent[s] = <<>> \/ ~IsTerminal(Last(sent[s]))
                             \/ Last(sent[s]) = GatewayError
              /\ \A u \in Sessions \ {s} :
                    /\ spc'[u] = spc[u]
                    /\ sent'[u] = sent[u]
                    /\ inbox'[u] = inbox[u]
                    /\ (u \in subscribed') = (u \in subscribed)]_vars

\* C28: a worker whose pop met an unreachable backend is back at its pop
\* after the backoff and the reconnect attempt, whether that attempt failed or
\* not; and if the backend stays reachable from some time on, a worker in
\* its backoff with a job waiting in the queue eventually pops again.
C28_ReconnectResumes ==
    /\ \A w \in Workers : (wpc[w] = "backoff") ~> (wpc[w] = "blpop")
    /\ (<>[](backend = "up")) =>
           \A w \in Workers, n \in 0..(NumSessions + NumRest) :
               (wpc[w] = "backoff" /\ queue # <<>> /\ Len(popped) = n)
                   ~> (Len(popped) > n)

C28_Witness ==
    \E w \in Workers :
        /\ retries[w] = MaxRetries
        /\ backend = "up"
        /\ wpc[w] = "start"
        /\ job[w] # NoJob

\* C29: every message a worker publishes carries the request_id of its job
\* and a timestamp.
C29_RequestIdAndTimestamp ==
    \A r \in Req :
        \A i \in 1..Len(published[r]) :
            published[r][i].request_id = r /\ published[r][i].timestamp = "time"

\* C30: a session that has ended, on whatever path, holds no subscription and
\* no unread bus message.
C30_TeardownOnEveryExit ==
    \A s \in Sessions :
        spc[s] = "closed" => (s \notin subscribed /\ inbox[s] = <<>>)

\* C31: every streaming session that has ended after taking a subscription
\* has incremented one of the request-outcome counters (success, error or
\* disconnect).
C31_OneOutcomeCounter ==
    \A s \in Sessions :
        (spc[s] = "closed" /\ s \in everSubscribed) =>
            outcome[s] \in {"success", "error", "disconnect"}

\* C32: when a driver is back at its pop, no subprocess of a job it gave up
\* is still running.
C32_TerminatedBeforeNextPop ==
    \A w \in Workers : wpc[w] = "blpop" => ~orphans[w]

\* C33: a driver has at most one running subprocess: none it spawned earlier
\* is still running while its current one runs, and its handle is empty
\* whenever it holds no job.
C33_AtMostOneSubprocess ==
    \A w \in Workers :
        /\ current_process[w] = "running" => ~orphans[w]
        /\ job[w] = NoJob => current_process[w] = "none"

\* C38: once the shutdown signal has cleared the running flag, the driver
\* takes no new job and spawns no subprocess.
C38_NoNewJobAfterSignal ==
    [][\A w \in Workers :
          ~running[w] =>
              /\ job[w] = NoJob => job'[w] = NoJob
              /\ current_process[w] # "running" =>
                     current_process'[w] # "running"]_vars

\* C39: what a client has received in one session is a prefix of what was
\* published on the request's channel, followed by at most one error
\* of the gateway's own, and it holds at most one terminal message.
C39_ClientSeesPrefix ==
    \A s \in Sessions :
        LET bus == SelectSeq(sent[s], LAMBDA m : m # GatewayError) IN
        /\ IsPrefix(bus, SelectSeq(published[s], Decodes))
        /\ sent[s] = bus \/ sent[s] = Append(bus, GatewayError)
        /\ Cardinality({i \in 1..Len(sent[s]) : IsTerminal(sent[s][i])}) <= 1

\* what stream_inference has published for the job of worker w when no call
\* has failed: a function of the job, of the subprocess output read so far
\* and of the position in the code, and of nothing else
ExpectedPublished(w) ==
    LET r == job[w].request_id
        toks == SelectSeq(full_output[w], IsPublished)
        tokens == [i \in 1..Len(toks) |-> TokenMessage(r, i, toks[i])]
    IN CASE wpc[w] = "start" -> <<>>
         [] wpc[w] = "popen" -> <<StartMessage(r)>>
         [] wpc[w] \in {"read", "complete"} -> <<StartMessage(r)>> \o tokens
         [] wpc[w] = "finally" ->
                <<StartMessage(r)>> \o tokens \o
                <<CompleteMessage(r, Len(toks),
                                  parse_llama_metrics(stderr_output[w]))>>

\* C34: a client disconnect has no effect on the driver: as long as no call
\* has failed, the messages published for a job are determined by the job
\* and the subprocess output alone, whether or not the client is connected.
C34_DisconnectInvisibleToDriver ==
    \A w \in Workers :
        (/\ job[w] # NoJob
         /\ faults = 0
         /\ wpc[w] \in {"start", "popen", "read", "complete", "finally"}) =>
            published[job[w].request_id] = ExpectedPublished(w)

C34_Witness ==
    \E s \in Sessions, w \in Workers :
        /\ ~connected[s]
        /\ spc[s] = "closed"
        /\ sent[s] = <<>>
        /\ job[w].request_id = s
        /\ wpc[w] = "finally"
        /\ faults = 0
        /\ token_count[w] > 0
        /\ IsComplete(Last(published[s]))

\* C35: every job in the queue has a non-empty prompt and a positive
\* max_tokens, and so has every job a driver passes to stream_inference.
C35_JobsWellFormed ==
    /\ \A i \in 1..Len(queue) :
           queue[i].prompt # "" /\ queue[i].max_tokens > 0
    /\ \A w \in Workers :
           job[w] # NoJob => (job[w].prompt # "" /\ job[w].max_tokens > 0)

\* C37: while a driver reads its subprocess, its first-token timestamp is set
\* exactly when at least one token message has been published.
C37_FirstTokenTimeIffToken ==
    \A w \in Workers :
        wpc[w] \in {"read", "complete"} =>
            (first_token_time[w] # NoTime <=> token_count[w] >= 1)

\* a worker has published the complete message of its job
CompletePublished(w) ==
    /\ wpc[w] = "finally"
    /\ parsed[w] = "returned"
    /\ published[job[w].request_id] # <<>>
    /\ IsComplete(Last(published[job[w].request_id]))

\* two fractions <<numerator, denominator>> denote the same number
SameRate(a, b) == a[1] * b[2] = b[1] * a[2]

\* C36 as stated: in every complete message tokens_per_second is token_count
\* divided by the time from the first token message to the last one, and 0
\* when that time is 0.
C36_RateOverTokenSpan ==
    \A w \in Workers :
        CompletePublished(w) =>
            LET times == token_times[w]
                span == IF times = <<>> THEN 0 ELSE Last(times) - times[1]
            IN SameRate(driver_metrics[w].tokens_per_second,
                        IF span > 0 THEN <<token_count[w], span>>
                                    ELSE <<0, 1>>)

\* C36 amended: in every complete message tokens_per_second is token_count
\* divided by generation_time, where generation_time runs from the driver's
\* first-token timestamp (from the start of the job when none was recorded)
\* to the end time taken after the subprocess has exited, which is not
\* before the last token; it is 0 when generation_time is 0.
C36_RateOverGenerationTime ==
    \A w \in Workers :
        CompletePublished(w) =>
            LET m == driver_metrics[w]
                end == job_start_time[w] + m.total_time
                from == IF first_token_time[w] # NoTime
                        THEN first_token_time[w] ELSE job_start_time[w]
            IN /\ end <= clock
               /\ token_times[w] # <<>> => Last(token_times[w]) <= end
               /\ m.generation_time = end - from
               /\ m.tokens_per_second =
                     IF end - from > 0 THEN <<token_count[w], end - from>>
                                       ELSE <<0, 1>>

C36_Witness ==
    \E w \in Workers :
        /\ CompletePublished(w)
        /\ first_token_time[w] > job_start_time[w]
        /\ Len(token_times[w]) = 1
        /\ driver_metrics[w].generation_time > 0
        /\ driver_metrics[w].tokens_per_second[1] = 1

====
